---------------------------- MODULE Spec2Model ----------------------------
(*************************************************************************)
(* Model of the four-stage video narration pipeline:                     *)
(*   step1_preprocess.py     scene filtering, best frame, OCR, scenes.json*)
(*   step2_understand.py     ASR + caption enrichment, scenes_enhanced.json*)
(*   step3_generate_script.py build_context                              *)
(*   step4_synthesize_audio.py split_sentences                           *)
(* Times are kept in milliseconds (the three decimals round() keeps),    *)
(* frame positions in frames, OCR confidences in tenths.                 *)
(*************************************************************************)
EXTENDS Integers, Sequences, FiniteSets, TLC

VARIABLES
    \* ---- stage 1 (step1_preprocess.main)
    EXTRACT_SUBTITLES,          \* configuration flag, line 20
    fps,                        \* cap.get(CAP_PROP_FPS), line 145
    scene_list,                 \* detect(...) result: <<start_frame, end_frame>> pairs
    pc1,                        \* position of stage 1's main
    ocr_engine,                 \* "None" or "engine", line 122-125
    EXTRACT_SUBTITLES_GLOBAL,   \* local flag of main, lines 126-132
    idx,                        \* loop index of enumerate(scene_list), 0-based
    scenes_meta,                \* list accumulated by the loop, line 148
    disk1,                      \* output_step1/scenes.json
    \* ---- stage 2 (step2_understand.main)
    pc2,                        \* position of stage 2's main
    scenes,                     \* json.load result, line 97
    i2,                         \* loop index of enumerate(scenes), 0-based
    enhanced_scenes,            \* list accumulated by the loop, line 101
    disk2,                      \* output_step2/scenes_enhanced.json
    observed1,                  \* what stage 2's read of scenes.json returned
    \* ---- pure-function harnesses
    fn                          \* state of the function under evaluation

vars == <<EXTRACT_SUBTITLES, fps, scene_list, pc1, ocr_engine,
          EXTRACT_SUBTITLES_GLOBAL, idx, scenes_meta, disk1,
          pc2, scenes, i2, enhanced_scenes, disk2, observed1, fn>>

stage1_vars == <<EXTRACT_SUBTITLES, fps, scene_list, pc1, ocr_engine,
                 EXTRACT_SUBTITLES_GLOBAL, idx, scenes_meta, disk1>>
stage2_vars == <<pc2, scenes, i2, enhanced_scenes, disk2, observed1>>

-----------------------------------------------------------------------------
(* Bounds of the model *)

MaxScenes == 2          \* longest detector output explored

(* Program constants *)

SCENE_MIN_DURATION == 1 \* seconds
OcrMinConf == 8         \* conf > 0.8, in tenths
Decimals == 1000        \* round(x, 3): thousandths are kept

None == "None"

-----------------------------------------------------------------------------
(* Arithmetic of step1_preprocess.main, lines 152-154 and 180-182 *)

\* Frame rates explored: 16 is a power of two (every frame/fps is an exact
\* double), 25 and 30 are not.
FrameRates == {16, 25, 30}

\* Scene lengths in frames the detector may return at a frame rate: empty,
\* half a second, exactly the minimum, one frame above it, two seconds.
SceneLens(f) == {0, f \div 2, f, f + 1, 2 * f}

\* Start frames s for which the IEEE-754 double computation
\* (s + f) / f - s / f yields a value below 1.0 although the exact quotient
\* difference is 1 (s < 300; none exist for f = 16).
LowStarts(f) ==
    IF f = 25 THEN {4, 10, 16, 17, 22, 23, 32, 33, 34, 44, 45, 46, 88, 89, 90,
                    91, 92, 93, 176, 178, 180, 182, 184, 186}
    ELSE IF f = 30 THEN {12, 14, 23, 25, 27, 29, 31, 35, 39, 43, 46, 50, 54,
                         58, 92, 93, 100, 101, 107, 108, 115, 116, 214, 215,
                         216, 217, 229, 230, 231, 232}
    ELSE {}

\* The filter with the comparison against zero instead of the minimum
DurationBelowMin_nonpositive(f, s, e) == e - s <= 0

\* duration < SCENE_MIN_DURATION, with duration = end/fps - start/fps in doubles
DurationBelowMin(f, s, e) ==
    \/ e - s < SCENE_MIN_DURATION * f
    \/ e - s = SCENE_MIN_DURATION * f /\ s \in LowStarts(f)

\* round(n / f, 2) in place of round(n / f, 3)
Round3_two(n, f) ==
    LET q == (100 * n) \div f
        r == (100 * n) % f
    IN  10 * (IF 2 * r > f \/ (2 * r = f /\ q % 2 = 1) THEN q + 1 ELSE q)

\* round(n / f, 3) in thousandths: nearest, ties to even
Round3(n, f) ==
    LET q == (Decimals * n) \div f
        r == (Decimals * n) % f
    IN  IF 2 * r > f \/ (2 * r = f /\ q % 2 = 1) THEN q + 1 ELSE q


-----------------------------------------------------------------------------
(* Detector output: contiguous scenes, as scenedetect.detect returns them *)

RECURSIVE SumTo(_, _)
SumTo(lens, n) == IF n = 0 THEN 0 ELSE SumTo(lens, n - 1) + lens[n]

Boundaries(lens) ==
    [i \in 1..Len(lens) |-> <<SumTo(lens, i - 1), SumTo(lens, i)>>]

SceneLists(f) ==
    {Boundaries(lens) : lens \in UNION {[1..n -> SceneLens(f)] : n \in 0..MaxScenes}}

-----------------------------------------------------------------------------
(* Checkpoint files.  A file is absent, holds a complete JSON document, or  *)
(* holds the prefix written so far by an open(path, "w") that has not been  *)
(* closed yet (open truncates; json.dump writes the array piecewise).       *)

Absent == [state |-> "absent", recs |-> <<>>]
Partial(recs) == [state |-> "partial", recs |-> recs]
Complete(recs) == [state |-> "complete", recs |-> recs]

\* A scenes.json left by an earlier run of stage 1
PrevScenes ==
    << [scene_id |-> 0, start_time |-> 0, end_time |-> 2000, duration |-> 2000,
        audio_path |-> "wav", frame_path |-> "jpg", subtitle_text |-> ""] >>

-----------------------------------------------------------------------------
(* extract_subtitle_from_frame, step1_preprocess.py lines 82-99 *)

\* What ocr_engine.predict(roi) may return: a list of items, each either of
\* the expected shape [box, (text, conf)] or of another shape.
OcrItems == {[shape |-> "ok", text |-> "A", conf |-> 9],
             [shape |-> "ok", text |-> "B", conf |-> 8],
             [shape |-> "other", text |-> "C", conf |-> 9]}
OcrResults == UNION {[1..n -> OcrItems] : n \in 0..2}

\* " ".join(texts)
RECURSIVE JoinSpace(_)
JoinSpace(texts) ==
    IF Len(texts) = 0 THEN ""
    ELSE IF Len(texts) = 1 THEN texts[1]
    ELSE texts[1] \o " " \o JoinSpace(Tail(texts))

\* isinstance checks of lines 93-97 and conf > 0.8
Qualifies(item) == item.shape = "ok" /\ item.conf > OcrMinConf

extract_subtitle_from_frame(result) ==
    IF Len(result) = 0 THEN ""
    ELSE JoinSpace([k \in 1..Len(SelectSeq(result, Qualifies))
                        |-> SelectSeq(result, Qualifies)[k].text])


-----------------------------------------------------------------------------
(* Stage 1: step1_preprocess.main *)

Fatal1 == {"FileNotFoundError", "ffmpeg.Error", "OcrError"}

\* The record with scene_id taken from the output position, not from idx
SceneRecord_renumbered(i, f, s, e, frame_path, subtitle_text) ==
    [scene_id |-> Len(scenes_meta),
     start_time |-> Round3(s, f),
     end_time |-> Round3(e, f),
     duration |-> Round3(e - s, f),
     audio_path |-> "wav",
     frame_path |-> frame_path,
     subtitle_text |-> subtitle_text]

\* lines 178-186: the record appended for scene idx
SceneRecord(i, f, s, e, frame_path, subtitle_text) ==
    [scene_id |-> i,
     start_time |-> Round3(s, f),
     end_time |-> Round3(e, f),
     duration |-> Round3(e - s, f),
     audio_path |-> "wav",
     frame_path |-> frame_path,
     subtitle_text |-> subtitle_text]

\* lines 109-149: input check, OCR initialisation, scene detection
S1_Setup ==
    /\ pc1 = "init"
    /\ \E video_exists \in BOOLEAN, engine \in {None, "engine"} :
         IF ~video_exists
         THEN /\ pc1' = "FileNotFoundError"
              /\ UNCHANGED <<ocr_engine, EXTRACT_SUBTITLES_GLOBAL, idx, scenes_meta>>
         ELSE /\ ocr_engine' = IF EXTRACT_SUBTITLES THEN engine ELSE None
              /\ EXTRACT_SUBTITLES_GLOBAL' = (EXTRACT_SUBTITLES /\ engine # None)
              /\ scenes_meta' = <<>>
              /\ idx' = 0
              /\ pc1' = "loop"
    /\ UNCHANGED <<EXTRACT_SUBTITLES, fps, scene_list, disk1>>
    /\ UNCHANGED stage2_vars
    /\ UNCHANGED fn

\* lines 151-157: a scene below the minimum duration is skipped
S1_SkipScene ==
    /\ pc1 = "loop"
    /\ idx < Len(scene_list)
    /\ DurationBelowMin(fps, scene_list[idx + 1][1], scene_list[idx + 1][2])
    /\ idx' = idx + 1
    /\ UNCHANGED <<EXTRACT_SUBTITLES, fps, scene_list, pc1, ocr_engine,
                   EXTRACT_SUBTITLES_GLOBAL, scenes_meta, disk1>>
    /\ UNCHANGED stage2_vars
    /\ UNCHANGED fn

\* lines 162-164 with 48-59: ffmpeg fails and extract_audio_segment re-raises
S1_AudioFails ==
    /\ pc1 = "loop"
    /\ idx < Len(scene_list)
    /\ ~DurationBelowMin(fps, scene_list[idx + 1][1], scene_list[idx + 1][2])
    /\ pc1' = "ffmpeg.Error"
    /\ UNCHANGED <<EXTRACT_SUBTITLES, fps, scene_list, ocr_engine,
                   EXTRACT_SUBTITLES_GLOBAL, idx, scenes_meta, disk1>>
    /\ UNCHANGED stage2_vars
    /\ UNCHANGED fn

\* lines 173-176 with 85: audio was extracted and a best frame decoded;
\* ocr_engine.predict raises inside extract_subtitle_from_frame, which has
\* no handler, and neither has main
S1_OcrRaises ==
    /\ pc1 = "loop"
    /\ idx < Len(scene_list)
    /\ ~DurationBelowMin(fps, scene_list[idx + 1][1], scene_list[idx + 1][2])
    /\ EXTRACT_SUBTITLES_GLOBAL
    /\ pc1' = "OcrError"
    /\ UNCHANGED <<EXTRACT_SUBTITLES, fps, scene_list, ocr_engine,
                   EXTRACT_SUBTITLES_GLOBAL, idx, scenes_meta, disk1>>
    /\ UNCHANGED stage2_vars
    /\ UNCHANGED fn

\* lines 159-186: audio, best frame, OCR, append
S1_Scene ==
    /\ pc1 = "loop"
    /\ idx < Len(scene_list)
    /\ LET s == scene_list[idx + 1][1]
           e == scene_list[idx + 1][2]
       IN  /\ ~DurationBelowMin(fps, s, e)
           /\ \E best_frame \in {None, "frame"} :
                LET frame_path == IF best_frame # None THEN "jpg" ELSE ""
                IN  IF EXTRACT_SUBTITLES_GLOBAL /\ best_frame # None
                    THEN \E result \in OcrResults :
                           scenes_meta' = Append(scenes_meta,
                               SceneRecord(idx, fps, s, e, frame_path,
                                           extract_subtitle_from_frame(result)))
                    ELSE scenes_meta' = Append(scenes_meta,
                               SceneRecord(idx, fps, s, e, frame_path, ""))
    /\ idx' = idx + 1
    /\ UNCHANGED <<EXTRACT_SUBTITLES, fps, scene_list, pc1, ocr_engine,
                   EXTRACT_SUBTITLES_GLOBAL, disk1>>
    /\ UNCHANGED stage2_vars
    /\ UNCHANGED fn

\* lines 188-189: open(meta_path, "w") truncates scenes.json
S1_Open ==
    /\ pc1 = "loop"
    /\ idx = Len(scene_list)
    /\ disk1' = Partial(<<>>)
    /\ pc1' = "dump"
    /\ UNCHANGED <<EXTRACT_SUBTITLES, fps, scene_list, ocr_engine,
                   EXTRACT_SUBTITLES_GLOBAL, idx, scenes_meta>>
    /\ UNCHANGED stage2_vars
    /\ UNCHANGED fn

\* line 190: json.dump writes the array piecewise; a buffer flush makes the
\* next record visible in the file
S1_Flush ==
    /\ pc1 = "dump"
    /\ Len(disk1.recs) < Len(scenes_meta)
    /\ disk1' = Partial(Append(disk1.recs, scenes_meta[Len(disk1.recs) + 1]))
    /\ UNCHANGED <<EXTRACT_SUBTITLES, fps, scene_list, pc1, ocr_engine,
                   EXTRACT_SUBTITLES_GLOBAL, idx, scenes_meta>>
    /\ UNCHANGED stage2_vars
    /\ UNCHANGED fn

\* lines 189-192: leaving the with block flushes the rest and closes the file
S1_Close ==
    /\ pc1 = "dump"
    /\ disk1' = Complete(scenes_meta)
    /\ pc1' = "done"
    /\ UNCHANGED <<EXTRACT_SUBTITLES, fps, scene_list, ocr_engine,
                   EXTRACT_SUBTITLES_GLOBAL, idx, scenes_meta>>
    /\ UNCHANGED stage2_vars
    /\ UNCHANGED fn

Stage1 == \/ S1_Setup \/ S1_SkipScene \/ S1_AudioFails \/ S1_OcrRaises
          \/ S1_Scene \/ S1_Open \/ S1_Flush \/ S1_Close


-----------------------------------------------------------------------------
(* Stage 2: step2_understand.main *)

Fatal2 == {"FileNotFoundError", "JSONDecodeError", "IndexError"}

\* What transcribe_audio / generate_caption return: text, or "" when the
\* engine finds nothing or raises (both functions catch every exception)
AsrTexts == {"", "asr"}
Captions == {"", "cap"}

\* lines 116-121: sentence-joined caption and transcript ("." stands for the
\* ideographic full stop the code joins with)
CombinedContext(vision_caption, asr_text) ==
    LET combined == (IF vision_caption # "" THEN <<vision_caption>> ELSE <<>>)
                    \o (IF asr_text # "" THEN <<asr_text>> ELSE <<>>)
    IN  IF Len(combined) = 0 THEN ""
        ELSE IF Len(combined) = 1 THEN combined[1] \o "."
        ELSE combined[1] \o "." \o combined[2] \o "."

\* lines 124-132
EnhancedRecord(scene, asr_text, vision_caption) ==
    [scene_id |-> scene.scene_id,
     start_time |-> scene.start_time,
     end_time |-> scene.end_time,
     duration |-> scene.duration,
     asr_text |-> asr_text,
     vision_caption |-> vision_caption,
     combined_context |-> CombinedContext(vision_caption, asr_text)]

\* lines 93-94: scenes.json does not exist
S2_InputMissing ==
    /\ pc2 = "init"
    /\ disk1.state = "absent"
    /\ pc2' = "FileNotFoundError"
    /\ UNCHANGED <<scenes, i2, enhanced_scenes, disk2, observed1>>
    /\ UNCHANGED stage1_vars
    /\ UNCHANGED fn

\* lines 96-101: the file holds a complete document
S2_Load ==
    /\ pc2 = "init"
    /\ disk1.state = "complete"
    /\ observed1' = disk1
    /\ scenes' = disk1.recs
    /\ i2' = 0
    /\ enhanced_scenes' = <<>>
    /\ pc2' = "loop"
    /\ UNCHANGED disk2
    /\ UNCHANGED stage1_vars
    /\ UNCHANGED fn

\* lines 96-97: the file holds a truncated document and json.load raises
S2_LoadFails ==
    /\ pc2 = "init"
    /\ disk1.state = "partial"
    /\ observed1' = disk1
    /\ pc2' = "JSONDecodeError"
    /\ UNCHANGED <<scenes, i2, enhanced_scenes, disk2>>
    /\ UNCHANGED stage1_vars
    /\ UNCHANGED fn

\* lines 102-132: one scene; os.path.exists("") is false for an empty frame_path
S2_Scene ==
    /\ pc2 = "loop"
    /\ i2 < Len(scenes)
    /\ \E asr_text \in AsrTexts, caption \in Captions :
         LET scene == scenes[i2 + 1]
             vision_caption == IF scene.frame_path = "" THEN "" ELSE caption
         IN  enhanced_scenes' =
                 Append(enhanced_scenes, EnhancedRecord(scene, asr_text, vision_caption))
    /\ i2' = i2 + 1
    /\ UNCHANGED <<pc2, scenes, disk2, observed1>>
    /\ UNCHANGED stage1_vars
    /\ UNCHANGED fn

\* lines 135-136: open(output_path, "w") truncates scenes_enhanced.json
S2_Open ==
    /\ pc2 = "loop"
    /\ i2 = Len(scenes)
    /\ disk2' = Partial(<<>>)
    /\ pc2' = "dump"
    /\ UNCHANGED <<scenes, i2, enhanced_scenes, observed1>>
    /\ UNCHANGED stage1_vars
    /\ UNCHANGED fn

\* line 137: a buffer flush makes the next record visible
S2_Flush ==
    /\ pc2 = "dump"
    /\ Len(disk2.recs) < Len(enhanced_scenes)
    /\ disk2' = Partial(Append(disk2.recs, enhanced_scenes[Len(disk2.recs) + 1]))
    /\ UNCHANGED <<pc2, scenes, i2, enhanced_scenes, observed1>>
    /\ UNCHANGED stage1_vars
    /\ UNCHANGED fn

\* lines 136-141: the file is closed; the preview then indexes
\* enhanced_scenes[0], which raises on an empty list
S2_Close ==
    /\ pc2 = "dump"
    /\ disk2' = Complete(enhanced_scenes)
    /\ pc2' = IF Len(enhanced_scenes) = 0 THEN "IndexError" ELSE "done"
    /\ UNCHANGED <<scenes, i2, enhanced_scenes, observed1>>
    /\ UNCHANGED stage1_vars
    /\ UNCHANGED fn

Stage2 == \/ S2_InputMissing \/ S2_Load \/ S2_LoadFails \/ S2_Scene
          \/ S2_Open \/ S2_Flush \/ S2_Close

-----------------------------------------------------------------------------
(* The pipeline: stage 1 and stage 2 are separate programs; nothing in either *)
(* keeps stage 2 from being started while stage 1 is still running.           *)

FnIdle == [op |-> "idle"]

Init ==
    /\ EXTRACT_SUBTITLES \in BOOLEAN
    /\ fps \in FrameRates
    /\ scene_list \in SceneLists(fps)
    /\ pc1 = "init"
    /\ ocr_engine = None
    /\ EXTRACT_SUBTITLES_GLOBAL = FALSE
    /\ idx = 0
    /\ scenes_meta = <<>>
    /\ disk1 \in {Absent, Complete(PrevScenes)}
    /\ pc2 = "init"
    /\ scenes = <<>>
    /\ i2 = 0
    /\ enhanced_scenes = <<>>
    /\ disk2 = Absent
    /\ observed1 = Absent
    /\ fn = FnIdle

Next == Stage1 \/ Stage2

Spec == Init /\ [][Next]_vars


-----------------------------------------------------------------------------
(* build_context, step3_generate_script.py lines 24-30 *)

MaxCtxScenes == 5       \* longest scene list given to build_context
MaxCap == 3             \* largest max_scenes given to build_context

Min(a, b) == IF a < b THEN a ELSE b

\* scene.get("combined_context") is None when the key is absent
CtxValues == {None, "", "ctx."}

\* Scene k (1-based position) of an enhanced artifact: ids ascend, start times
\* are those stage 1 stores for scenes of 31 frames at 30 fps
CtxScene(k, ctx) ==
    [scene_id |-> k - 1, start_time |-> Round3(31 * (k - 1), 30),
     combined_context |-> ctx]

CtxInputs ==
    UNION {{[k \in 1..n |-> CtxScene(k, c[k])] : c \in [1..n -> CtxValues]}
           : n \in 0..MaxCtxScenes}

\* f"{start:.1f}": one decimal, nearest (the start times drawn are no ties)
Format1(ms) ==
    LET tenths == (ms + 50) \div 100
    IN  ToString(tenths \div 10) \o "." \o ToString(tenths % 10)

\* line 29
ContextLine(scene) ==
    "[" \o Format1(scene.start_time) \o "s] " \o scene.combined_context

\* The test as "is not None": an empty string passes
HasContext_notNone(scene) == scene.combined_context # None

\* line 27: truthiness of scene.get("combined_context")
HasContext(scene) ==
    scene.combined_context # None /\ scene.combined_context # ""

\* line 26: scenes[:max_scenes]
SliceHead(s, max_scenes) == SubSeq(s, 1, Min(max_scenes, Len(s)))

\* "\n".join(texts)
RECURSIVE JoinNewline(_)
JoinNewline(texts) ==
    IF Len(texts) = 0 THEN ""
    ELSE IF Len(texts) = 1 THEN texts[1]
    ELSE texts[1] \o "\n" \o JoinNewline(Tail(texts))

BC_Init ==
    /\ fn \in {[op |-> "build_context", pc |-> "loop", scenes |-> s,
                max_scenes |-> m, k |-> 0, texts |-> <<>>, result |-> None]
               : s \in CtxInputs, m \in 0..MaxCap}
    /\ EXTRACT_SUBTITLES = FALSE
    /\ fps = 30
    /\ scene_list = <<>>
    /\ pc1 = "off"
    /\ ocr_engine = None
    /\ EXTRACT_SUBTITLES_GLOBAL = FALSE
    /\ idx = 0
    /\ scenes_meta = <<>>
    /\ disk1 = Absent
    /\ pc2 = "off"
    /\ scenes = <<>>
    /\ i2 = 0
    /\ enhanced_scenes = <<>>
    /\ disk2 = Absent
    /\ observed1 = Absent

\* lines 26-29: a scene of the slice with context
BC_Emit ==
    /\ fn.op = "build_context" /\ fn.pc = "loop"
    /\ fn.k < Len(SliceHead(fn.scenes, fn.max_scenes))
    /\ HasContext(SliceHead(fn.scenes, fn.max_scenes)[fn.k + 1])
    /\ fn' = [fn EXCEPT !.k = @ + 1,
                        !.texts = Append(@,
                            ContextLine(SliceHead(fn.scenes, fn.max_scenes)[fn.k + 1]))]
    /\ UNCHANGED stage1_vars
    /\ UNCHANGED stage2_vars

\* lines 26-27: a scene of the slice without context
BC_Skip ==
    /\ fn.op = "build_context" /\ fn.pc = "loop"
    /\ fn.k < Len(SliceHead(fn.scenes, fn.max_scenes))
    /\ ~HasContext(SliceHead(fn.scenes, fn.max_scenes)[fn.k + 1])
    /\ fn' = [fn EXCEPT !.k = @ + 1]
    /\ UNCHANGED stage1_vars
    /\ UNCHANGED stage2_vars

\* line 30
BC_Return ==
    /\ fn.op = "build_context" /\ fn.pc = "loop"
    /\ fn.k = Len(SliceHead(fn.scenes, fn.max_scenes))
    /\ fn' = [fn EXCEPT !.pc = "done", !.result = JoinNewline(fn.texts)]
    /\ UNCHANGED stage1_vars
    /\ UNCHANGED stage2_vars

BC_Next == BC_Emit \/ BC_Skip \/ BC_Return

SpecCtx == BC_Init /\ [][BC_Next]_vars


-----------------------------------------------------------------------------
(* get_best_frame, step1_preprocess.py lines 61-80 *)

MaxScore == 2           \* sharpness scores range over 0..MaxScore
PatternLen == 3         \* the video's scores repeat with this period
SampleTarget == 30      \* line 66: total_frames // 30
NoFrame == -1           \* line 64: best_frame = None (frames are named by index)

\* Frame ranges explored: empty, short, and long enough for strides 2 and 3
StartFrames == {0, 1}
FrameCounts == {0, 1, 2, 4, 59, 60, 61, 90}

\* line 66
Stride(start_frame, end_frame) ==
    LET total_frames == end_frame - start_frame
        q == total_frames \div SampleTarget
    IN  IF q > 1 THEN q ELSE 1

\* cap.read() at frame i: frames from decode_end on cannot be decoded
Decodes(f, i) == i < f.decode_end

\* line 74: Laplacian variance of frame i of the video
Score(f, i) == f.pattern[(i % PatternLen) + 1]

\* The comparison as >=: a later frame of equal score replaces the best
Sharper_orEqual(score, best_score) == score >= best_score

\* line 75
Sharper(score, best_score) == score > best_score

GB_Init ==
    /\ fn \in {[op |-> "get_best_frame", pc |-> "loop", pattern |-> pat,
                decode_end |-> de, start_frame |-> s, end_frame |-> s + n,
                i |-> s, best_score |-> -1, best_frame |-> NoFrame]
               : pat \in [1..PatternLen -> 0..MaxScore],
                 s \in StartFrames, n \in FrameCounts,
                 de \in {0, 1, 3, 100}}
    /\ EXTRACT_SUBTITLES = FALSE
    /\ fps = 30
    /\ scene_list = <<>>
    /\ pc1 = "off"
    /\ ocr_engine = None
    /\ EXTRACT_SUBTITLES_GLOBAL = FALSE
    /\ idx = 0
    /\ scenes_meta = <<>>
    /\ disk1 = Absent
    /\ pc2 = "off"
    /\ scenes = <<>>
    /\ i2 = 0
    /\ enhanced_scenes = <<>>
    /\ disk2 = Absent
    /\ observed1 = Absent

\* lines 68-77: frame i decodes and is sharper than the best so far
GB_Better ==
    /\ fn.op = "get_best_frame" /\ fn.pc = "loop"
    /\ fn.i < fn.end_frame
    /\ Decodes(fn, fn.i)
    /\ Sharper(Score(fn, fn.i), fn.best_score)
    /\ fn' = [fn EXCEPT !.best_score = Score(fn, fn.i),
                        !.best_frame = fn.i,
                        !.i = @ + Stride(fn.start_frame, fn.end_frame)]
    /\ UNCHANGED stage1_vars
    /\ UNCHANGED stage2_vars

\* lines 68-75: frame i decodes and is not sharper
GB_NotBetter ==
    /\ fn.op = "get_best_frame" /\ fn.pc = "loop"
    /\ fn.i < fn.end_frame
    /\ Decodes(fn, fn.i)
    /\ ~Sharper(Score(fn, fn.i), fn.best_score)
    /\ fn' = [fn EXCEPT !.i = @ + Stride(fn.start_frame, fn.end_frame)]
    /\ UNCHANGED stage1_vars
    /\ UNCHANGED stage2_vars

\* lines 70-72 and 79-80: cap.read() fails, the loop breaks
GB_Break ==
    /\ fn.op = "get_best_frame" /\ fn.pc = "loop"
    /\ fn.i < fn.end_frame
    /\ ~Decodes(fn, fn.i)
    /\ fn' = [fn EXCEPT !.pc = "done"]
    /\ UNCHANGED stage1_vars
    /\ UNCHANGED stage2_vars

\* lines 68 and 79-80: the range is exhausted
GB_Return ==
    /\ fn.op = "get_best_frame" /\ fn.pc = "loop"
    /\ fn.i >= fn.end_frame
    /\ fn' = [fn EXCEPT !.pc = "done"]
    /\ UNCHANGED stage1_vars
    /\ UNCHANGED stage2_vars

GB_Next == GB_Better \/ GB_NotBetter \/ GB_Break \/ GB_Return

SpecFrame == GB_Init /\ [][GB_Next]_vars


-----------------------------------------------------------------------------
(* split_sentences, step4_synthesize_audio.py lines 15-17.  A text is a     *)
(* sequence of characters; "." and "!" stand for two of the sentence-final  *)
(* marks of the pattern's class, " " for whitespace, "a" for any other      *)
(* character.                                                               *)

MaxTextLen == 5         \* longest narration text explored

Chars == {"a", " ", ".", "!"}
IsMark(c) == c \in {".", "!"}
IsSpace(c) == c = " "

Texts == UNION {[1..n -> Chars] : n \in 0..MaxTextLen}

\* str.strip()
RECURSIVE StripLeft(_)
StripLeft(s) ==
    IF Len(s) > 0 /\ IsSpace(s[1]) THEN StripLeft(Tail(s)) ELSE s

RECURSIVE StripRight(_)
StripRight(s) ==
    IF Len(s) > 0 /\ IsSpace(s[Len(s)]) THEN StripRight(SubSeq(s, 1, Len(s) - 1))
    ELSE s

Strip(s) == StripRight(StripLeft(s))

\* \s* at index p: the length of the whitespace run starting there
RECURSIVE WsRun(_, _)
WsRun(s, p) ==
    IF p <= Len(s) /\ IsSpace(s[p]) THEN 1 + WsRun(s, p + 1) ELSE 0

\* A lookahead in place of the lookbehind: the split falls before a mark
SplitsAfter_before(s, p) == p < Len(s) /\ IsMark(s[p + 1])

\* (?<=[marks]) holds right after character p
SplitsAfter(s, p) == IsMark(s[p])

\* re.split(pattern, s): the pattern matches after every mark and takes the
\* whitespace that follows; the pieces between matches are returned, a last
\* (possibly empty) piece included.  last: characters already consumed.
RECURSIVE ReSplitFrom(_, _, _)
ReSplitFrom(s, last, p) ==
    IF p > Len(s) THEN <<SubSeq(s, last + 1, Len(s))>>
    ELSE IF SplitsAfter(s, p)
         THEN <<SubSeq(s, last + 1, p)>>
              \o ReSplitFrom(s, p + WsRun(s, p + 1), p + 1)
         ELSE ReSplitFrom(s, last, p + 1)

ReSplit(s) == ReSplitFrom(s, 0, 1)

NonBlank(s) == Len(Strip(s)) > 0

\* line 17: [s.strip() for s in sentences if s.strip()]
StripKept(pieces) ==
    [k \in 1..Len(SelectSeq(pieces, NonBlank)) |-> Strip(SelectSeq(pieces, NonBlank)[k])]

\* lines 15-17
split_sentences(text) == StripKept(ReSplit(Strip(text)))

SS_Init ==
    /\ fn \in {[op |-> "split_sentences", pc |-> "start", text |-> txt,
                sentences |-> <<>>, k |-> 0, again |-> <<>>] : txt \in Texts}
    /\ EXTRACT_SUBTITLES = FALSE
    /\ fps = 30
    /\ scene_list = <<>>
    /\ pc1 = "off"
    /\ ocr_engine = None
    /\ EXTRACT_SUBTITLES_GLOBAL = FALSE
    /\ idx = 0
    /\ scenes_meta = <<>>
    /\ disk1 = Absent
    /\ pc2 = "off"
    /\ scenes = <<>>
    /\ i2 = 0
    /\ enhanced_scenes = <<>>
    /\ disk2 = Absent
    /\ observed1 = Absent

\* step4 main, line 27: sentences = split_sentences(script)
SS_Split ==
    /\ fn.op = "split_sentences" /\ fn.pc = "start"
    /\ fn' = [fn EXCEPT !.pc = "split", !.sentences = split_sentences(fn.text)]
    /\ UNCHANGED stage1_vars
    /\ UNCHANGED stage2_vars

\* split_sentences applied again to the next element of its own result
SS_Resplit ==
    /\ fn.op = "split_sentences" /\ fn.pc = "split"
    /\ fn.k < Len(fn.sentences)
    /\ fn' = [fn EXCEPT !.k = @ + 1,
                        !.again = split_sentences(fn.sentences[fn.k + 1])]
    /\ UNCHANGED stage1_vars
    /\ UNCHANGED stage2_vars

SS_Next == SS_Split \/ SS_Resplit

SpecSplit == SS_Init /\ [][SS_Next]_vars


-----------------------------------------------------------------------------
(* Properties of stage 1 and of the checkpoint files, under Spec *)

\* The artifact stage 1 has written in this run
Stage1Written == pc1 = "done"

RecordIds(recs) == [k \in 1..Len(recs) |-> recs[k].scene_id]
DetectorIndices == [k \in 1..Len(scene_list) |-> k - 1]
FrameLen(i) == scene_list[i + 1][2] - scene_list[i + 1][1]
PassesFilter(i) ==
    ~DurationBelowMin(fps, scene_list[i + 1][1], scene_list[i + 1][2])

\* C1: the artifact stage 1 writes holds exactly the scenes that pass the
\* duration filter, each with its index in the detector's list as scene_id:
\* the ids are the kept indices in order (hence strictly increasing), the
\* missing ids are the dropped indices, every scene longer than the minimum is
\* there and every shorter one is not.
C1_SceneIdsAreDetectorIndices ==
    Stage1Written =>
        /\ disk1.state = "complete"
        /\ RecordIds(disk1.recs) = SelectSeq(DetectorIndices, PassesFilter)
        /\ \A a, b \in 1..Len(disk1.recs) :
               a < b => disk1.recs[a].scene_id < disk1.recs[b].scene_id
        /\ \A i \in 0..(Len(scene_list) - 1) :
               /\ FrameLen(i) > SCENE_MIN_DURATION * fps
                      => \E k \in 1..Len(disk1.recs) : disk1.recs[k].scene_id = i
               /\ FrameLen(i) < SCENE_MIN_DURATION * fps
                      => \A k \in 1..Len(disk1.recs) : disk1.recs[k].scene_id # i

\* C1 witness: a written artifact whose first record is detector scene 1,
\* scene 0 having been dropped
C1_Witness ==
    /\ Stage1Written
    /\ Len(scene_list) = 2
    /\ Len(disk1.recs) = 1
    /\ disk1.recs[1].scene_id = 1

\* C4: when ffmpeg fails on a scene, the records of the scenes completed
\* before it are in scenes.json by the time the error leaves main.
C4_CompletedScenesPersisted ==
    (pc1 = "ffmpeg.Error" /\ Len(scenes_meta) > 0) => disk1 = Complete(scenes_meta)

\* C5: subtitle extraction never aborts stage 1: a run ends fatally only for
\* a missing video or an ffmpeg failure, and with OCR disabled or not
\* initialised every record carries an empty subtitle_text.
C5_OcrNeverAborts ==
    /\ pc1 # "OcrError"
    /\ (pc1 \in {"loop", "dump", "done"} /\ ~EXTRACT_SUBTITLES_GLOBAL)
           => \A k \in 1..Len(scenes_meta) : scenes_meta[k].subtitle_text = ""

\* C6: a read of scenes.json never returns a partially written document.
C6_ReaderNeverSeesPartial == observed1.state # "partial"

AllRecords ==
    {scenes_meta[k] : k \in 1..Len(scenes_meta)}
        \cup {disk1.recs[k] : k \in 1..Len(disk1.recs)}

Abs(x) == IF x < 0 THEN -x ELSE x

\* C9 as stated: in every record the stored duration equals the stored
\* end_time minus the stored start_time.
C9_DurationIsDifference ==
    \A r \in AllRecords : r.duration = r.end_time - r.start_time

\* C9 amended: in every record the stored duration differs from the stored
\* end_time minus the stored start_time by at most one thousandth of a second.
C9_DurationWithinOneThousandth ==
    \A r \in AllRecords : Abs(r.duration - (r.end_time - r.start_time)) <= 1

\* C9 witness: a persisted record whose duration and end - start differ
C9_Witness ==
    /\ Stage1Written
    /\ \E k \in 1..Len(disk1.recs) :
           disk1.recs[k].duration # disk1.recs[k].end_time - disk1.recs[k].start_time

\* C10: every record has end_time > start_time and duration at least the
\* minimum scene duration.
C10_RecordsMeetMinimum ==
    \A r \in AllRecords :
        /\ r.end_time > r.start_time
        /\ r.duration >= SCENE_MIN_DURATION * Decimals

\* C10 witness: a written artifact with a record of exactly the minimum
\* duration, from a detector list that also held an empty and a short scene
C10_Witness ==
    /\ Stage1Written
    /\ \E k \in 1..Len(disk1.recs) :
           disk1.recs[k].duration = SCENE_MIN_DURATION * Decimals
    /\ \E i \in 0..(Len(scene_list) - 1) : FrameLen(i) < SCENE_MIN_DURATION * fps


-----------------------------------------------------------------------------
(* Properties of build_context, under SpecCtx *)

NonEmptyContext(scene) ==
    scene.combined_context # None /\ scene.combined_context # ""

Qualifying(s) == SelectSeq(s, NonEmptyContext)

FirstN(s, n) == SubSeq(s, 1, IF n < Len(s) THEN n ELSE Len(s))

LinesOf(s) == [k \in 1..Len(s) |-> ContextLine(s[k])]

\* The position in fn.scenes of the scene a line was made from (start times
\* differ from scene to scene, so the line names its scene)
SceneOfLine(line) ==
    CHOOSE j \in 1..Len(fn.scenes) : ContextLine(fn.scenes[j]) = line

\* C2: the lines returned are those of the first max_scenes scenes that have
\* a non-empty combined_context: a scene without context takes no slot.
C2_EmptyScenesTakeNoSlot ==
    fn.pc = "done" => fn.texts = LinesOf(FirstN(Qualifying(fn.scenes), fn.max_scenes))

\* C3: build_context returns at most max_scenes lines, none for a scene whose
\* combined_context is empty or absent, in input order; with max_scenes = 2
\* over five scenes that all have context, the lines of the first two scenes.
C3_AtMostMaxScenesInOrder ==
    fn.pc = "done" =>
        /\ Len(fn.texts) <= fn.max_scenes
        /\ \A a \in 1..Len(fn.texts) :
               \E j \in 1..Len(fn.scenes) :
                   /\ NonEmptyContext(fn.scenes[j])
                   /\ fn.texts[a] = ContextLine(fn.scenes[j])
        /\ \A a, b \in 1..Len(fn.texts) :
               a < b => fn.scenes[SceneOfLine(fn.texts[a])].scene_id
                            < fn.scenes[SceneOfLine(fn.texts[b])].scene_id
        /\ fn.result = JoinNewline(fn.texts)
        /\ (fn.max_scenes = 2 /\ Len(fn.scenes) = 5
                /\ Len(Qualifying(fn.scenes)) = 5)
               => fn.texts = <<ContextLine(fn.scenes[1]), ContextLine(fn.scenes[2])>>

\* C3 witness: max_scenes = 2 over five scenes with context has returned
C3_Witness ==
    /\ fn.pc = "done"
    /\ fn.max_scenes = 2
    /\ Len(fn.scenes) = 5
    /\ Len(Qualifying(fn.scenes)) = 5
    /\ Len(fn.texts) = 2

-----------------------------------------------------------------------------
(* Properties of get_best_frame, under SpecFrame *)

SampleStep ==
    IF (fn.end_frame - fn.start_frame) \div 30 > 1
    THEN (fn.end_frame - fn.start_frame) \div 30 ELSE 1

\* start_frame, start_frame + step, ... below end_frame
Samples ==
    {i \in fn.start_frame..(fn.end_frame - 1) : (i - fn.start_frame) % SampleStep = 0}

AllSamplesDecode == \A i \in Samples : i < fn.decode_end

ScoreAt(i) == fn.pattern[(i % PatternLen) + 1]

\* C7: get_best_frame returns none when the range is empty or its first
\* sampled frame does not decode; when every sampled frame decodes it returns
\* the earliest of the sampled frames of maximal sharpness score.
C7_EarliestSharpestSample ==
    fn.pc = "done" =>
        /\ (Samples = {} \/ fn.start_frame >= fn.decode_end) => fn.best_frame = NoFrame
        /\ (Samples # {} /\ AllSamplesDecode) =>
               /\ fn.best_frame \in Samples
               /\ \A i \in Samples : ScoreAt(i) <= ScoreAt(fn.best_frame)
               /\ \A i \in Samples :
                      ScoreAt(i) = ScoreAt(fn.best_frame) => fn.best_frame <= i
               /\ fn.best_score = ScoreAt(fn.best_frame)

\* C7 witness: a stride above 1, every sample decoded, the maximal score
\* shared by the frame returned and a later sample
C7_Witness ==
    /\ fn.pc = "done"
    /\ SampleStep > 1
    /\ AllSamplesDecode
    /\ fn.best_frame # NoFrame
    /\ \E i \in Samples : i > fn.best_frame /\ ScoreAt(i) = ScoreAt(fn.best_frame)
    /\ \E i \in Samples : ScoreAt(i) < ScoreAt(fn.best_frame)

-----------------------------------------------------------------------------
(* Properties of split_sentences, under SpecSplit *)

\* C8: every utterance split_sentences returns is non-empty and trimmed and
\* has a sentence-final mark at most as its last character, and splitting an
\* utterance again returns that utterance alone.
C8_SplitIsIdempotent ==
    fn.pc = "split" =>
        /\ \A k \in 1..Len(fn.sentences) :
               LET e == fn.sentences[k]
               IN  /\ Len(e) > 0
                   /\ e[1] # " " /\ e[Len(e)] # " "
                   /\ \A p \in 1..(Len(e) - 1) : e[p] \notin {".", "!"}
        /\ fn.k > 0 => fn.again = <<fn.sentences[fn.k]>>

\* C8 witness: a text of several utterances, the second of them a marked
\* sentence that has been split again
C8_Witness ==
    /\ fn.pc = "split"
    /\ Len(fn.sentences) >= 2
    /\ fn.k = 2
    /\ Len(fn.sentences[2]) >= 2
    /\ fn.sentences[2][Len(fn.sentences[2])] \in {".", "!"}
    /\ \E p \in 1..Len(fn.text) : fn.text[p] = " "

=============================================================================
